---- MODULE Spec2Model ----
(***************************************************************************)
(* A model of the double-double layer of the qd crate: Double::atan2       *)
(* (src/src/double/trig/atan2.rs) and Double::min / max / from_bits /      *)
(* to_bits / from_*_bytes / to_*_bytes (src/src/double/util.rs).           *)
(*                                                                         *)
(* A binary64 is modelled by its bit pattern: a sequence of 8 bytes, most  *)
(* significant byte first, so that byte 1 holds the sign bit and the top   *)
(* seven bits of the exponent field.  A Double is the pair <<c0, c1>> of   *)
(* its two components (self.0 and self.1 in the source).                   *)
(***************************************************************************)
EXTENDS Integers, Sequences, FiniteSets

\* ------------------------------------------------------------------ bounds

\* Finite samples have leading components +-2^k for k in -MaxExp..MaxExp.
MaxExp == 1

\* NaN samples carry the payloads 0..MaxPayload in their lowest byte.
MaxPayload == 1

\* Non-zero trailing components of the samples are +-2^(-LoExp).
LoExp == 60

\* A fold consumes at most MaxLen items.
MaxLen == 3

\* The integer items of a sum are at most MaxInt in magnitude.
MaxInt == 2

\* The large and small items of a product are 2^BigExp and 2^(-BigExp).
BigExp == 600

\* The precisions of the format specifications are 0..MaxPrec.
MaxPrec == 2

\* The width of the format specifications that have one.
MaxWidth == 6

\* ------------------------------------------------------- binary64 patterns

\* The sign bit of a binary64.
SignBit(f) == f[1] >= 128

\* The 11-bit biased exponent field.
ExpField(f) == (f[1] % 128) * 16 + (f[2] \div 16)

\* Whether the 52-bit fraction field is zero.
FracZero(f) == f[2] % 16 = 0 /\ \A i \in 3..8 : f[i] = 0

F64IsNan(f) == ExpField(f) = 2047 /\ ~FracZero(f)

F64IsInfinite(f) == ExpField(f) = 2047 /\ FracZero(f)

F64IsZero(f) == ExpField(f) = 0 /\ FracZero(f)

\* Unary minus on a binary64 flips the sign bit and nothing else.
F64Neg(f) == [f EXCEPT ![1] = (f[1] + 128) % 256]

\* The pattern with the sign bit cleared.
F64Abs(f) == [f EXCEPT ![1] = f[1] % 128]

\* Order of two patterns with clear sign bits and no NaN: the order of the
\* patterns read as unsigned integers, most significant byte first.
MagLess(f, g) ==
    \E i \in 1..8 : f[i] < g[i] /\ \A j \in 1..(i - 1) : f[j] = g[j]

\* IEEE equality: NaN equals nothing, +0 equals -0.
F64Eq(f, g) ==
    /\ ~F64IsNan(f)
    /\ ~F64IsNan(g)
    /\ (f = g \/ (F64IsZero(f) /\ F64IsZero(g)))

\* IEEE less-than.
F64Lt(f, g) ==
    /\ ~F64IsNan(f)
    /\ ~F64IsNan(g)
    /\ ~F64Eq(f, g)
    /\ IF SignBit(f) # SignBit(g) THEN SignBit(f)
       ELSE IF SignBit(f) THEN MagLess(F64Abs(g), F64Abs(f))
       ELSE MagLess(f, g)

\* f64::partial_cmp: "None" when either side is NaN.
F64PartialCmp(f, g) ==
    IF F64IsNan(f) \/ F64IsNan(g) THEN "None"
    ELSE IF F64Eq(f, g) THEN "Equal"
    ELSE IF F64Lt(f, g) THEN "Less"
    ELSE "Greater"

\* The patterns of some binary64 values.
PosZero == <<0, 0, 0, 0, 0, 0, 0, 0>>

PosInf == <<127, 240, 0, 0, 0, 0, 0, 0>>

\* A quiet NaN with payload p; QNaN(0) is f64::NAN.
QNaN(p) == <<127, 248, 0, 0, 0, 0, 0, p>>

\* 2^k for a k in the normal range: exponent field 1023 + k, fraction 0.
Pow2(k) == <<(1023 + k) \div 16, ((1023 + k) % 16) * 16, 0, 0, 0, 0, 0, 0>>

\* ------------------------------------------------------------------ Double

\* Double(a, b): the tuple struct of the two components.
Double(a, b) == <<a, b>>

is_zero(d) == F64IsZero(d[1])

is_infinite(d) == F64IsInfinite(d[1])

is_finite(d) == ~F64IsInfinite(d[1]) /\ ~F64IsNan(d[1])

is_sign_positive(d) == ~SignBit(d[1])

\* NaN in any component makes the value NaN.
is_nan(d) == F64IsNan(d[1]) \/ F64IsNan(d[2])

\* Negation flips the sign of every component.
neg(d) == Double(F64Neg(d[1]), F64Neg(d[2]))

\* Equality: componentwise, across both slots.
eq(a, b) == F64Eq(a[1], b[1]) /\ F64Eq(a[2], b[2])

\* partial_cmp: unordered when any component is NaN, else lexicographic over
\* the components.
partial_cmp(a, b) ==
    IF is_nan(a) \/ is_nan(b) THEN "None"
    ELSE IF F64PartialCmp(a[1], b[1]) # "Equal" THEN F64PartialCmp(a[1], b[1])
    ELSE F64PartialCmp(a[2], b[2])

ZERO == Double(PosZero, PosZero)

ONE == Double(Pow2(0), PosZero)

NAN == Double(QNaN(0), QNaN(0))

PI == Double(<<64, 9, 33, 251, 84, 68, 45, 24>>,
             <<60, 161, 166, 38, 51, 20, 92, 7>>)

FRAC_PI_2 == Double(<<63, 249, 33, 251, 84, 68, 45, 24>>,
                    <<60, 145, 166, 38, 51, 20, 92, 7>>)

FRAC_PI_4 == Double(<<63, 233, 33, 251, 84, 68, 45, 24>>,
                    <<60, 129, 166, 38, 51, 20, 92, 7>>)

FRAC_3_PI_4 == Double(<<64, 2, 217, 124, 127, 51, 33, 210>>,
                      <<60, 154, 121, 57, 76, 158, 138, 10>>)

\* ------------------------------------------------------------------- atan2

\* What a call returns: the arm of the case analysis that produced it, the
\* value, and the number of Newton updates of z that ran.
Ret(b, v, n) == [branch |-> b, value |-> v, steps |-> n]

\* The Newton update of the general case.  The arithmetic (sqr, +, sqrt, /,
\* sin_cos) lives outside the modelled files, so z' is kept as a term: the
\* seed is the hardware atan2 of the leading components self.0 and other.0,
\* and the form is the sine form when |x.0| > |y.0| for x = other / r and
\* y = self / r, else the cosine form.

\* The binary exponent of a finite non-zero leading component.
Exp2(d) == ExpField(d[1]) - 1023

\* d.sqr() leaves the binary64 range: its leading component is an infinity
\* above the range, a zero below it.
sqr_overflows(d) == 2 * Exp2(d) > 1023

sqr_underflows(d) == 2 * Exp2(d) < 0 - 1075

\* let r = (self.sqr() + other.sqr()).sqrt(): infinite when a square
\* overflows, zero when both squares underflow, else positive and finite.
r_class(self, other) ==
    IF sqr_overflows(self) \/ sqr_overflows(other) THEN "inf"
    ELSE IF sqr_underflows(self) /\ sqr_underflows(other) THEN "zero"
    ELSE "finite"

\* x.0.abs() > y.0.abs().  A finite positive r divides both operands alike,
\* so their leading components compare as those of other and self do; an
\* infinite r leaves two zeros and a zero r two infinities, which are equal
\* in magnitude.
sine_form(self, other) ==
    r_class(self, other) = "finite"
        /\ MagLess(F64Abs(self[1]), F64Abs(other[1]))

newton(self, other) ==
    [seed |-> <<self[1], other[1]>>,
     form |-> IF sine_form(self, other) THEN "sin" ELSE "cos"]

\* The arms of the case analysis, each the value its arm returns.

\* A variant of arm_x_zero that drops the negation for a negative self.
arm_x_zero_unsigned(self) ==
    IF is_zero(self) THEN NAN
    ELSE FRAC_PI_2

\* other is zero.
arm_x_zero(self) ==
    IF is_zero(self) THEN NAN
    ELSE IF is_sign_positive(self) THEN FRAC_PI_2
    ELSE neg(FRAC_PI_2)

\* A variant of arm_y_zero that ignores the sign of other.
arm_y_zero_unsigned(other) == ZERO

\* A variant of arm_y_zero that negates pi for a negative other.
arm_y_zero_neg_pi(other) ==
    IF is_sign_positive(other) THEN ZERO
    ELSE neg(PI)

\* self is zero (and other is not).
arm_y_zero(other) ==
    IF is_sign_positive(other) THEN ZERO
    ELSE PI

\* A variant of arm_y_inf that lets a NaN in other through as NaN.
arm_y_inf_nan_aware(self, other) ==
    IF is_infinite(other) \/ is_nan(other) THEN NAN
    ELSE IF is_sign_positive(self) THEN FRAC_PI_2
    ELSE neg(FRAC_PI_2)

\* self is infinite.
arm_y_inf(self, other) ==
    IF is_infinite(other) THEN NAN
    ELSE IF is_sign_positive(self) THEN FRAC_PI_2
    ELSE neg(FRAC_PI_2)

\* A variant of arm_x_inf that follows IEEE 754: +-pi for other = -inf.
arm_x_inf_ieee(self, other) ==
    IF is_sign_positive(other) THEN ZERO
    ELSE IF is_sign_positive(self) THEN PI
    ELSE neg(PI)

\* other is infinite.
arm_x_inf(self, other) == ZERO

\* A variant of arm_nan that panics: the call returns no value.
arm_nan_panics(self, other) == <<>>

\* self or other is NaN.
arm_nan(self, other) == NAN

\* A variant of arm_y_eq_x that stays in the fourth quadrant.
arm_y_eq_x_quarter(self) ==
    IF is_sign_positive(self) THEN FRAC_PI_4
    ELSE neg(FRAC_PI_4)

\* self == other
arm_y_eq_x(self) ==
    IF is_sign_positive(self) THEN FRAC_PI_4
    ELSE neg(FRAC_3_PI_4)

\* self == -other
arm_y_eq_neg_x(self) ==
    IF is_sign_positive(self) THEN FRAC_3_PI_4
    ELSE neg(FRAC_PI_4)

Arms ==
    {"x_zero", "y_zero", "y_inf", "x_inf", "nan", "y_eq_x", "y_eq_neg_x",
     "general"}

\* A variant of atan2 that tests for a NaN argument before the zero and
\* infinity checks.
atan2_nan_first(self, other) ==
    IF is_nan(self) \/ is_nan(other) THEN
        Ret("nan", arm_nan(self, other), 0)
    ELSE IF is_zero(other) THEN Ret("x_zero", arm_x_zero(self), 0)
    ELSE IF is_zero(self) THEN Ret("y_zero", arm_y_zero(other), 0)
    ELSE IF is_infinite(self) THEN Ret("y_inf", arm_y_inf(self, other), 0)
    ELSE IF is_infinite(other) THEN Ret("x_inf", arm_x_inf(self, other), 0)
    ELSE IF eq(self, other) THEN Ret("y_eq_x", arm_y_eq_x(self), 0)
    ELSE IF eq(self, neg(other)) THEN
        Ret("y_eq_neg_x", arm_y_eq_neg_x(self), 0)
    ELSE Ret("general", newton(self, other), 1)

atan2(self, other) ==
    IF is_zero(other) THEN Ret("x_zero", arm_x_zero(self), 0)
    ELSE IF is_zero(self) THEN Ret("y_zero", arm_y_zero(other), 0)
    ELSE IF is_infinite(self) THEN Ret("y_inf", arm_y_inf(self, other), 0)
    ELSE IF is_infinite(other) THEN Ret("x_inf", arm_x_inf(self, other), 0)
    ELSE IF is_nan(self) \/ is_nan(other) THEN
        Ret("nan", arm_nan(self, other), 0)
    ELSE IF eq(self, other) THEN Ret("y_eq_x", arm_y_eq_x(self), 0)
    ELSE IF eq(self, neg(other)) THEN
        Ret("y_eq_neg_x", arm_y_eq_neg_x(self), 0)
    ELSE Ret("general", newton(self, other), 1)

\* -------------------------------------------------------------- min, max

\* A variant of min that keeps self when the operands are unordered, as
\* f64::min keeps the operand that is not NaN.
min_keeps_self(self, other) ==
    IF partial_cmp(self, other) \in {"Less", "Equal"} THEN self
    ELSE IF partial_cmp(self, other) = "Greater" THEN other
    ELSE self

min(self, other) ==
    IF partial_cmp(self, other) \in {"Less", "Equal"} THEN self
    ELSE IF partial_cmp(self, other) = "Greater" THEN other
    ELSE other

\* A variant of max that keeps self when the operands compare equal.
max_self_on_equal(self, other) ==
    IF partial_cmp(self, other) = "Less" THEN other
    ELSE IF partial_cmp(self, other) \in {"Equal", "Greater"} THEN self
    ELSE other

max(self, other) ==
    IF partial_cmp(self, other) \in {"Less", "Equal"} THEN other
    ELSE IF partial_cmp(self, other) = "Greater" THEN self
    ELSE other

\* ------------------------------------------------------- bits and bytes

\* A u128 is modelled by its 16 bytes, most significant first.  A value in
\* memory is its bytes in address order.

Reverse(s) == [i \in 1..Len(s) |-> s[Len(s) + 1 - i]]

Endians == {"little", "big"}

\* The memory image of an integer or of a binary64 on a target of byte order
\* e, and back: on a little-endian target the least significant byte comes
\* first.
ToMem(e, digits) == IF e = "little" THEN Reverse(digits) ELSE digits

OfMem(e, mem) == IF e = "little" THEN Reverse(mem) ELSE mem

\* transmute::<u128, Double>: the 16 bytes of the integer, as they lie in
\* memory, are the two components, self.0 at offset 0 and self.1 at offset 8.
transmute_to_double(e, b) ==
    LET mem == ToMem(e, b)
    IN Double(OfMem(e, SubSeq(mem, 1, 8)), OfMem(e, SubSeq(mem, 9, 16)))

\* transmute::<Double, u128>
transmute_to_u128(e, d) ==
    OfMem(e, ToMem(e, d[1]) \o ToMem(e, d[2]))

\* u128::to_be_bytes, to_le_bytes, to_ne_bytes and their inverses.
u128_to_be_bytes(b) == b

u128_to_le_bytes(b) == Reverse(b)

u128_to_ne_bytes(e, b) == ToMem(e, b)

u128_from_be_bytes(bytes) == bytes

u128_from_le_bytes(bytes) == Reverse(bytes)

u128_from_ne_bytes(e, bytes) == OfMem(e, bytes)

\* A variant of from_bits that reads the two components in the other order.
from_bits_swapped(e, b) ==
    Double(transmute_to_double(e, b)[2], transmute_to_double(e, b)[1])

\* A variant of from_bits that replaces every NaN component by the canonical
\* quiet NaN.
from_bits_canonical(e, b) ==
    LET d == transmute_to_double(e, b)
        canon(f) == IF F64IsNan(f) THEN QNaN(0) ELSE f
    IN Double(canon(d[1]), canon(d[2]))

from_bits(e, b) == transmute_to_double(e, b)

to_bits(e, self) == transmute_to_u128(e, self)

from_be_bytes(e, bytes) == from_bits(e, u128_from_be_bytes(bytes))

from_le_bytes(e, bytes) == from_bits(e, u128_from_le_bytes(bytes))

from_ne_bytes(e, bytes) == from_bits(e, u128_from_ne_bytes(e, bytes))

to_be_bytes(e, self) == u128_to_be_bytes(to_bits(e, self))

\* A variant of to_le_bytes that emits the bytes in native order.
to_le_bytes_native(e, self) == u128_to_ne_bytes(e, to_bits(e, self))

to_le_bytes(e, self) == u128_to_le_bytes(to_bits(e, self))

to_ne_bytes(e, self) == u128_to_ne_bytes(e, to_bits(e, self))

Orders == {"be", "le", "ne"}

to_bytes(o, e, self) ==
    CASE o = "be" -> to_be_bytes(e, self)
      [] o = "le" -> to_le_bytes(e, self)
      [] o = "ne" -> to_ne_bytes(e, self)

from_bytes(o, e, bytes) ==
    CASE o = "be" -> from_be_bytes(e, bytes)
      [] o = "le" -> from_le_bytes(e, bytes)
      [] o = "ne" -> from_ne_bytes(e, bytes)

\* ------------------------------------------------------------- arithmetic

\* The operators + and * of Double and Quad are defined outside the files
\* modelled here.  They are written from the documented behaviour, for the
\* operands the folds below meet: special values, small integers, powers of
\* two, and the sum of +-2^1023 and a small integer.  A value of either width
\* is the tuple of its components, leading component first.

\* The width-k value with the leading components c0 and c1 and +0 below them.
Wide(k, c0, c1) ==
    [i \in 1..k |-> IF i = 1 THEN c0 ELSE IF i = 2 THEN c1 ELSE PosZero]

WithSign(neg_, f) == IF neg_ THEN F64Neg(F64Abs(f)) ELSE F64Abs(f)

\* NaN of width k: NaN in every component, as Double::NAN and Quad::NAN.
WideNan(k) == [i \in 1..k |-> QNaN(0)]

\* An infinity of width k.
WideInf(k, neg_) == Wide(k, WithSign(neg_, PosInf), PosZero)

\* A zero of width k.
WideZero(k, neg_) == Wide(k, WithSign(neg_, PosZero), PosZero)

\* The binary64 of the integer n, |n| < 256: the exponent is the position of
\* the leading bit, the top eight fraction bits hold the rest.
IntF64(n) ==
    LET m == IF n < 0 THEN 0 - n ELSE n
        e == CHOOSE k \in 0..7 : 2^k <= m /\ m < 2^(k + 1)
        fr == m * 2^(8 - e) - 256
        p == <<(1023 + e) \div 16, ((1023 + e) % 16) * 16 + (fr \div 16),
               (fr % 16) * 16, 0, 0, 0, 0, 0>>
    IN IF m = 0 THEN PosZero ELSE WithSign(n < 0, p)

\* The integer n, |n| < 256, that a binary64 holds.
F64Int(f) ==
    LET m == (256 + (f[2] % 16) * 16 + (f[3] \div 16))
                 \div 2^(1031 - ExpField(f))
    IN IF F64IsZero(f) THEN 0 ELSE IF SignBit(f) THEN 0 - m ELSE m

\* The finite operands of a sum: big * 2^1023 + small, held exactly as the
\* pair (+-2^1023, small) or, when big = 0, as (small, 0).
SumTerm(a) ==
    IF F64Abs(a[1]) = Pow2(1023)
    THEN [big |-> IF SignBit(a[1]) THEN 0 - 1 ELSE 1, small |-> F64Int(a[2])]
    ELSE [big |-> 0, small |-> F64Int(a[1])]

\* a + b.  NaN in an operand gives NaN; infinities of opposite signs give
\* NaN; an infinity and anything else give the infinity; a finite sum beyond
\* the binary64 range overflows to the infinity of its sign.
add(a, b) ==
    LET k == Len(a)
        s == [big |-> SumTerm(a).big + SumTerm(b).big,
              small |-> SumTerm(a).small + SumTerm(b).small]
    IN IF F64IsNan(a[1]) \/ F64IsNan(b[1]) THEN WideNan(k)
       ELSE IF F64IsInfinite(a[1]) /\ F64IsInfinite(b[1]) THEN
           IF SignBit(a[1]) = SignBit(b[1]) THEN WideInf(k, SignBit(a[1]))
           ELSE WideNan(k)
       ELSE IF F64IsInfinite(a[1]) THEN WideInf(k, SignBit(a[1]))
       ELSE IF F64IsInfinite(b[1]) THEN WideInf(k, SignBit(b[1]))
       ELSE IF s.big > 1 \/ s.big < 0 - 1 THEN WideInf(k, s.big < 0)
       ELSE IF s.big # 0 THEN
           Wide(k, WithSign(s.big < 0, Pow2(1023)), IntF64(s.small))
       ELSE IF s.small # 0 THEN Wide(k, IntF64(s.small), PosZero)
       ELSE WideZero(k, is_zero(a) /\ is_zero(b)
                        /\ SignBit(a[1]) /\ SignBit(b[1]))

\* 2^e as a binary64: an infinity above the range, a subnormal with one
\* fraction bit below the normal range, zero below the subnormals.
Pow2F64(e) ==
    IF e > 1023 THEN PosInf
    ELSE IF e >= 0 - 1022 THEN Pow2(e)
    ELSE IF e >= 0 - 1074 THEN
        [j \in 1..8 |-> IF j = 8 - ((e + 1074) \div 8)
                        THEN 2^((e + 1074) % 8) ELSE 0]
    ELSE PosZero

\* a * b.  NaN in an operand gives NaN; zero times an infinity gives NaN;
\* otherwise the sign is the exclusive or of the signs, an infinite operand
\* gives an infinity and a zero operand a zero.  The finite non-zero operands
\* are powers of two: their product is the power of two of the sum of the
\* exponents, which overflows to an infinity and underflows to zero.
mul(a, b) ==
    LET k == Len(a)
        sgn == SignBit(a[1]) # SignBit(b[1])
        e == (ExpField(a[1]) - 1023) + (ExpField(b[1]) - 1023)
    IN IF F64IsNan(a[1]) \/ F64IsNan(b[1]) THEN WideNan(k)
       ELSE IF F64IsInfinite(a[1]) \/ F64IsInfinite(b[1]) THEN
           IF F64IsZero(a[1]) \/ F64IsZero(b[1]) THEN WideNan(k)
           ELSE WideInf(k, sgn)
       ELSE IF F64IsZero(a[1]) \/ F64IsZero(b[1]) THEN WideZero(k, sgn)
       ELSE Wide(k, WithSign(sgn, Pow2F64(e)), PosZero)

\* ------------------------------------------------------------------ folds

\* Quad::ZERO and Quad::ONE.
QUAD_ZERO == <<PosZero, PosZero, PosZero, PosZero>>

QUAD_ONE == <<Pow2(0), PosZero, PosZero, PosZero>>

\* Variants of the folds: a sum seeded with one, a product seeded with zero,
\* a sum that skips NaN elements, a sum that keeps an infinite accumulator
\* whatever is added to it, and a product that treats the product of two
\* infinities of opposite signs as invalid.
sum_init_one == Double(Pow2(0), PosZero)

product_init_zero == <<PosZero, PosZero, PosZero, PosZero>>

sum_f_skips_nan(a, b) == IF F64IsNan(b[1]) THEN a ELSE add(a, b)

sum_f_keeps_inf(a, b) == IF F64IsInfinite(a[1]) THEN a ELSE add(a, b)

product_f_inf_invalid(a, b) ==
    IF F64IsInfinite(a[1]) /\ F64IsInfinite(b[1])
       /\ SignBit(a[1]) # SignBit(b[1])
    THEN WideNan(Len(a))
    ELSE mul(a, b)

\* impl Sum for Double: iter.fold(Double::ZERO, |a, b| a + b)
double_sum_init == ZERO

double_sum_f(a, b) == add(a, b)

\* impl Sum<&Double> for Double: iter.fold(Double::ZERO, |a, b| a + *b)
double_sum_ref_init == ZERO

double_sum_ref_f(a, b) == add(a, b)

\* impl Product for Double: iter.fold(Double::ONE, |a, b| a * b)
double_product_init == ONE

double_product_f(a, b) == mul(a, b)

\* impl Product<&Double> for Double: iter.fold(Double::ONE, |a, b| a * *b)
double_product_ref_init == ONE

double_product_ref_f(a, b) == mul(a, b)

\* impl Sum for Quad: iter.fold(Quad::ZERO, |a, b| a + b)
quad_sum_init == QUAD_ZERO

quad_sum_f(a, b) == add(a, b)

\* impl Sum<&Quad> for Quad: iter.fold(Quad::ZERO, |a, b| a + *b)
quad_sum_ref_init == QUAD_ZERO

quad_sum_ref_f(a, b) == add(a, b)

\* impl Product for Quad: iter.fold(Quad::ONE, |a, b| a * b)
quad_product_init == QUAD_ONE

quad_product_f(a, b) == mul(a, b)

\* impl Product<&Quad> for Quad: iter.fold(Quad::ONE, |a, b| a * *b)
quad_product_ref_init == QUAD_ONE

quad_product_ref_f(a, b) == mul(a, b)

Types == {"Double", "Quad"}

Sums == {"sum", "sum_ref"}

Products == {"product", "product_ref"}

\* The initial accumulator of the fold of type ty and kind kind.
fold_init(ty, kind) ==
    CASE ty = "Double" /\ kind = "sum" -> double_sum_init
      [] ty = "Double" /\ kind = "sum_ref" -> double_sum_ref_init
      [] ty = "Double" /\ kind = "product" -> double_product_init
      [] ty = "Double" /\ kind = "product_ref" -> double_product_ref_init
      [] ty = "Quad" /\ kind = "sum" -> quad_sum_init
      [] ty = "Quad" /\ kind = "sum_ref" -> quad_sum_ref_init
      [] ty = "Quad" /\ kind = "product" -> quad_product_init
      [] ty = "Quad" /\ kind = "product_ref" -> quad_product_ref_init

\* The closure of the fold, applied to the accumulator a and the item b.
fold_f(ty, kind, a, b) ==
    CASE ty = "Double" /\ kind = "sum" -> double_sum_f(a, b)
      [] ty = "Double" /\ kind = "sum_ref" -> double_sum_ref_f(a, b)
      [] ty = "Double" /\ kind = "product" -> double_product_f(a, b)
      [] ty = "Double" /\ kind = "product_ref" -> double_product_ref_f(a, b)
      [] ty = "Quad" /\ kind = "sum" -> quad_sum_f(a, b)
      [] ty = "Quad" /\ kind = "sum_ref" -> quad_sum_ref_f(a, b)
      [] ty = "Quad" /\ kind = "product" -> quad_product_f(a, b)
      [] ty = "Quad" /\ kind = "product_ref" -> quad_product_ref_f(a, b)

\* ------------------------------------------------------------------- Quad

\* A Quad is the tuple <<c0, c1, c2, c3>> of its components.  The
\* predicates and the arithmetic of Quad are defined outside the files
\* modelled here and are written from their documented behaviour.

quad_is_nan(q) == \E i \in 1..4 : F64IsNan(q[i])

quad_is_infinite(q) == F64IsInfinite(q[1])

quad_is_zero(q) == F64IsZero(q[1])

quad_is_finite(q) == ~F64IsInfinite(q[1]) /\ ~F64IsNan(q[1])

quad_is_sign_negative(q) == SignBit(q[1])

\* ------------------------------------------------------- decimal values

\* The formatter works on the value of a finite non-zero Quad.  The value
\* is held in decimal: [neg, ip, fr] stands for +-(ip + 0.fr[1]fr[2]...),
\* and the arithmetic of the wide type is taken to be exact on it.  What is
\* not exact is the leading component value.0: it is the value rounded to
\* the nearest binary64.

DecZero(fr) == \A i \in 1..Len(fr) : fr[i] = 0

\* The digits of 1 - 0.fr, for a non-zero fraction.
DecCompl(fr) ==
    LET last == CHOOSE k \in 1..Len(fr) :
                    fr[k] # 0 /\ \A j \in (k + 1)..Len(fr) : fr[j] = 0
    IN [i \in 1..Len(fr) |->
           IF i < last THEN 9 - fr[i]
           ELSE IF i = last THEN 10 - fr[i]
           ELSE 0]

\* Digit i of a fraction, zero beyond its end.
DecAt(fr, i) == IF i <= Len(fr) THEN fr[i] ELSE 0

\* 0.a <= 0.b
DecLeq(a, b) ==
    LET n == IF Len(a) > Len(b) THEN Len(a) ELSE Len(b)
    IN \/ \A i \in 1..n : DecAt(a, i) = DecAt(b, i)
       \/ \E i \in 1..n :
              /\ DecAt(a, i) < DecAt(b, i)
              /\ \A j \in 1..(i - 1) : DecAt(a, j) = DecAt(b, j)

\* The decimal digits of 2^-54, 2^-53, 2^-52, 2^-51 and 2^-50: half the
\* distance between neighbouring binary64 values in [1/2, 1), [1, 2), [2, 4),
\* [4, 8) and [8, 16).
HalfUlp54 ==
    <<0, 0, 0, 0, 0, 0, 0, 0, 0, 0, 0, 0, 0, 0, 0, 0, 5, 5, 5, 1, 1, 1, 5, 1,
      2, 3, 1, 2, 5, 7, 8, 2, 7, 0, 2, 1, 1, 8, 1, 5, 8, 3, 4, 0, 4, 5, 4, 1,
      0, 1, 5, 6, 2, 5>>

HalfUlp53 ==
    <<0, 0, 0, 0, 0, 0, 0, 0, 0, 0, 0, 0, 0, 0, 0, 1, 1, 1, 0, 2, 2, 3, 0, 2,
      4, 6, 2, 5, 1, 5, 6, 5, 4, 0, 4, 2, 3, 6, 3, 1, 6, 6, 8, 0, 9, 0, 8, 2,
      0, 3, 1, 2, 5>>

HalfUlp52 ==
    <<0, 0, 0, 0, 0, 0, 0, 0, 0, 0, 0, 0, 0, 0, 0, 2, 2, 2, 0, 4, 4, 6, 0, 4,
      9, 2, 5, 0, 3, 1, 3, 0, 8, 0, 8, 4, 7, 2, 6, 3, 3, 3, 6, 1, 8, 1, 6, 4,
      0, 6, 2, 5>>

HalfUlp51 ==
    <<0, 0, 0, 0, 0, 0, 0, 0, 0, 0, 0, 0, 0, 0, 0, 4, 4, 4, 0, 8, 9, 2, 0, 9,
      8, 5, 0, 0, 6, 2, 6, 1, 6, 1, 6, 9, 4, 5, 2, 6, 6, 7, 2, 3, 6, 3, 2, 8,
      1, 2, 5>>

HalfUlp50 ==
    <<0, 0, 0, 0, 0, 0, 0, 0, 0, 0, 0, 0, 0, 0, 0, 8, 8, 8, 1, 7, 8, 4, 1, 9,
      7, 0, 0, 1, 2, 5, 2, 3, 2, 3, 3, 8, 9, 0, 5, 3, 3, 4, 4, 7, 2, 6, 5, 6,
      2, 5>>

\* Half the distance between the integer n, 1 <= n <= 16, and the binary64
\* below it.
HalfUlpBelow(n) ==
    IF n = 1 THEN HalfUlp54
    ELSE IF n = 2 THEN HalfUlp53
    ELSE IF n <= 4 THEN HalfUlp52
    ELSE IF n <= 8 THEN HalfUlp51
    ELSE HalfUlp50

\* libm::trunc(value.0), as a magnitude: the integer part of the leading
\* component.  The leading component of ip + 0.fr is the integer ip + 1 when
\* the value lies within half an ulp below it (a tie rounds to the even
\* neighbour, which is the integer), and has the integer part ip otherwise.
trunc_leading(v) ==
    IF ~DecZero(v.fr) /\ DecLeq(DecCompl(v.fr), HalfUlpBelow(v.ip + 1))
    THEN v.ip + 1
    ELSE v.ip

\* digit as u8: the cast saturates, so a negative digit (and -0) gives 0.
as_u8(neg_, t) == IF neg_ THEN 0 ELSE IF t > 255 THEN 255 ELSE t

\* value -= Quad(digit, 0, 0, 0); value *= TEN, with digit the signed
\* libm::trunc(value.0).
sub_digit_mul_ten(v) ==
    LET t == trunc_leading(v)
        rest == IF t = v.ip THEN v.fr ELSE DecCompl(v.fr)
        flip == t # v.ip
    IN [neg |-> IF flip THEN ~v.neg ELSE v.neg,
        ip |-> IF rest = <<>> THEN 0 ELSE Head(rest),
        fr |-> IF rest = <<>> THEN <<>> ELSE Tail(rest)]

\* The number with the decimal digits ds.
RECURSIVE DecInt(_)
DecInt(ds) ==
    IF ds = <<>> THEN 0
    ELSE 10 * DecInt(SubSeq(ds, 1, Len(ds) - 1)) + ds[Len(ds)]

Zeros(n) == [i \in 1..n |-> 0]

\* value / TEN.powi(exp) for the value mant[1].mant[2]... * 10^e10.
scale(mant, e10, exp) ==
    LET shift == e10 - exp
        m == mant \o Zeros(shift + 1 - Len(mant))
    IN IF shift >= 0
       THEN [neg |-> FALSE,
             ip |-> DecInt(SubSeq(m, 1, shift + 1)),
             fr |-> SubSeq(m, shift + 2, Len(m))]
       ELSE [neg |-> FALSE, ip |-> 0, fr |-> Zeros(0 - shift - 1) \o mant]

\* -------------------------------------------------------------- formatting

\* const MAX_ACCURACY: usize = 62
MAX_ACCURACY == 62

\* An Option: None is the empty tuple, Some(n) the tuple <<n>>.
None == <<>>

Some(n) == <<n>>

\* A value handed to the formatter: the components c, and for a finite
\* non-zero leading component the decimal value |value| = mant[1].mant[2]...
\* * 10^e10 together with lg = floor(log10(|c0|)) as the hardware computes it
\* from the leading component.

\* The helpers d::push_nan ... d::round_and_trunc live in crate::common::display,
\* outside the files modelled here; they are written from the documented
\* format and from the strings the tests of display.rs expect.

push_nan(chars) == chars \o <<"N", "a", "N">>

push_inf(chars) == chars \o <<"i", "n", "f">>

\* "0", followed by a point and precision zeros when a non-zero precision is
\* given.
push_zero(chars, f) ==
    chars \o <<"0">>
          \o (IF f.precision # None /\ f.precision[1] > 0
              THEN <<".">> \o [i \in 1..f.precision[1] |-> "0"]
              ELSE <<>>)

\* The character of a digit; a number above 9 is not a decimal digit and has
\* no character.
DigitChar(d) ==
    IF d <= 9 THEN <<"0", "1", "2", "3", "4", "5", "6", "7", "8", "9">>[d + 1]
    ELSE "?"

\* The decimal digits of a natural number, most significant first.
RECURSIVE NatDigits(_)
NatDigits(n) ==
    IF n < 10 THEN <<n>> ELSE Append(NatDigits(n \div 10), n % 10)

\* The marker and the exponent, with a minus sign when it is negative.
push_exp(chars, marker, exp) ==
    LET ds == NatDigits(IF exp < 0 THEN 0 - exp ELSE exp)
    IN chars \o <<marker>>
             \o (IF exp < 0 THEN <<"-">> ELSE <<>>)
             \o [i \in 1..Len(ds) |-> DigitChar(ds[i])]

\* Adds one in the last place; a carry out of the first place prepends 1.
round_up(ds) ==
    LET open == {i \in 1..Len(ds) : ds[i] # 9}
        k == CHOOSE i \in open : \A j \in open : j <= i
    IN IF open = {} THEN <<1>> \o Zeros(Len(ds))
       ELSE [i \in 1..Len(ds) |->
                IF i < k THEN ds[i] ELSE IF i = k THEN ds[i] + 1 ELSE 0]

\* Keeps the first offset digits, rounded to nearest (half to even) on the
\* digits dropped.
round_and_trunc(digits, offset) ==
    LET kept == SubSeq(digits, 1, offset)
        d == digits[offset + 1]
        rest == SubSeq(digits, offset + 2, Len(digits))
        up == \/ d > 5
              \/ /\ d = 5
                 /\ (~DecZero(rest) \/ (offset > 0 /\ kept[offset] % 2 = 1))
    IN IF Len(digits) <= offset THEN digits
       ELSE IF up THEN round_up(kept)
       ELSE kept

\* The number of digits before the decimal point.
IntDigits(exp) == IF exp > 0 THEN exp + 1 ELSE 1

\* The digits without their trailing zeros, but at least n of them.
StripZeros(ds, n) ==
    LET keep == {n} \cup {i \in (n + 1)..Len(ds) : ds[i] # 0}
        last == CHOOSE i \in keep : \A j \in keep : j <= i
    IN IF Len(ds) > n THEN SubSeq(ds, 1, last) ELSE ds

\* Leading zeros for a negative exponent, zeros up to the decimal point for
\* a large one, and no trailing zeros behind the point.
adjust_zeros(digits, exp) ==
    LET lead == IF exp < 0 THEN Zeros(0 - exp) \o digits ELSE digits
        full == lead \o Zeros(IntDigits(exp) - Len(lead))
    IN StripZeros(full, IntDigits(exp))

\* With a precision: exactly that many digits behind the point, by padding
\* with zeros or by rounding.
adjust_prec(digits, exp, prec) ==
    IF prec = None THEN digits
    ELSE IF Len(digits) <= IntDigits(exp) + prec[1]
    THEN digits \o Zeros(IntDigits(exp) + prec[1] - Len(digits))
    ELSE round_and_trunc(digits, IntDigits(exp) + prec[1])

\* The characters of the digits, with a point behind the integer digits
\* when digits follow it.
place_decimal(digits, exp) ==
    LET n == IntDigits(exp)
        cs == [i \in 1..Len(digits) |-> DigitChar(digits[i])]
    IN IF Len(cs) > n
       THEN SubSeq(cs, 1, n) \o <<".">> \o SubSeq(cs, n + 1, Len(cs))
       ELSE cs

\* Pads the characters to the width: with zeros behind the sign for the
\* zero flag, else with the fill character on the side the alignment asks
\* for (right-aligned by default).
align_and_fill(chars, signed, f) ==
    LET n == IF f.width = None THEN 0 ELSE f.width[1] - Len(chars)
        pad(k, c) == [i \in 1..k |-> c]
        s == IF signed THEN 1 ELSE 0
    IN IF n <= 0 THEN chars
       ELSE IF f.zero_pad
       THEN SubSeq(chars, 1, s) \o pad(n, "0")
                \o SubSeq(chars, s + 1, Len(chars))
       ELSE IF f.align = "left" THEN chars \o pad(n, f.fill)
       ELSE IF f.align = "center"
       THEN pad(n \div 2, f.fill) \o chars \o pad(n - (n \div 2), f.fill)
       ELSE pad(n, f.fill) \o chars

\* A variant of push_sign that writes the requested plus before it looks at
\* the sign of the value.
push_sign_plus_first(chars, value, f) ==
    IF f.sign_plus THEN [chars |-> Append(chars, "+"), signed |-> TRUE]
    ELSE IF quad_is_sign_negative(value.c)
    THEN [chars |-> Append(chars, "-"), signed |-> TRUE]
    ELSE [chars |-> chars, signed |-> FALSE]

push_sign(chars, value, f) ==
    IF quad_is_sign_negative(value.c)
    THEN [chars |-> Append(chars, "-"), signed |-> TRUE]
    ELSE IF f.sign_plus THEN [chars |-> Append(chars, "+"), signed |-> TRUE]
    ELSE [chars |-> chars, signed |-> FALSE]

\* The pattern below a positive one: the next binary64 towards zero.
PrevF64(f) ==
    LET nz == {i \in 1..8 : f[i] # 0}
        k == CHOOSE i \in nz : \A j \in nz : j <= i
    IN [i \in 1..8 |-> IF i < k THEN f[i] ELSE IF i = k THEN f[i] - 1 ELSE 255]

\* The index of the highest bit set in a byte that is not zero.
TopBit(n) == CHOOSE t \in 0..7 : 2^t <= n /\ n < 2^(t + 1)

\* The index (0..51) of the highest bit set in a fraction field that is not
\* zero.
FracTop(f) ==
    LET fb == [i \in 2..8 |-> IF i = 2 THEN f[2] % 16 ELSE f[i]]
        nz == {i \in 2..8 : fb[i] # 0}
        k == CHOOSE i \in nz : \A j \in nz : i <= j
    IN 8 * (8 - k) + TopBit(fb[k])

\* The binary exponent e of a finite non-zero pattern, normal or subnormal:
\* its magnitude lies in [2^e, 2^(e + 1)).
Binade(f) ==
    IF ExpField(f) > 0 THEN ExpField(f) - 1023 ELSE FracTop(f) - 1074

\* floor(log10(2^e)) for -1074 <= e <= 1024.  No power of two in that range
\* but 2^0 is within 4 * 10^-4 (relative) of a power of ten, so the quotient
\* 30103 / 100000 for log10(2) gives the floor exactly.
floor_log10_pow2(e) == (e * 30103) \div 100000

\* libm::floor(libm::log10(value.0)) as i32 for a positive finite value.0
\* that is a power of two or the largest binary64 below one; the latter
\* has the logarithm of the power of two above it, except below 1.0, where
\* the logarithm is below zero.
floor_log10_f64(f) ==
    IF f = Pow2F64(Binade(f)) THEN floor_log10_pow2(Binade(f))
    ELSE IF Binade(f) + 1 = 0 THEN 0 - 1
    ELSE floor_log10_pow2(Binade(f) + 1)

\* A variant of trunc_pos that counts 323 places.
trunc_pos_323(exp) ==
    IF 323 + exp < MAX_ACCURACY THEN 323 + exp ELSE MAX_ACCURACY

\* The position extract_digits rounds and truncates at.
trunc_pos(exp) == IF 324 + exp < MAX_ACCURACY THEN 324 + exp ELSE MAX_ACCURACY

\* The loop of extract_digits runs one iteration per step of the machine
\* below.  floop is its state: the value (v), the buffer (digits) and the
\* number of iterations run (iters).
VARIABLE floop

\* let mut value = value / divisor; let mut digits = vec![];
loop_enter(value, exp) ==
    [v |-> scale(value.mant, value.e10, exp), digits |-> <<>>, iters |-> 0]

\* One iteration of the loop: the digit of the value is pushed, and the value
\* loses it and is multiplied by ten.
loop_body(s) ==
    [v |-> sub_digit_mul_ten(s.v),
     digits |-> Append(s.digits, as_u8(s.v.neg, trunc_leading(s.v))),
     iters |-> s.iters + 1]

\* A variant of the loop bound that stops after MAX_ACCURACY digits.
loop_count_short == MAX_ACCURACY

\* for _ in 0..(MAX_ACCURACY + 1): the number of iterations.
loop_count == MAX_ACCURACY + 1

\* extract_digits(value, exp) behind its loop: raw is the buffer the loop
\* filled, digits what is returned.
extract_digits(value, exp) ==
    [raw |-> floop.digits,
     iters |-> floop.iters,
     pos |-> trunc_pos(exp),
     digits |-> round_and_trunc(floop.digits, trunc_pos(exp))]

\* The values that reach extract_digits: the others are written by
\* push_nan, push_inf and push_zero.
needs_digits(self) ==
    ~quad_is_nan(self.c) /\ ~quad_is_infinite(self.c) /\ ~quad_is_zero(self.c)

\* floor(log10(value.0)) as i32
floor_log10(value) == value.lg

push_digits_fixed(chars, value, f) ==
    LET exp == floor_log10(value)
        prec == f.precision
        e == extract_digits(value, exp)
        digits == adjust_prec(adjust_zeros(e.digits, exp), exp, prec)
    IN [chars |-> chars \o place_decimal(digits, exp), ext |-> e]

push_digits_exp(chars, value, f) ==
    LET exp == floor_log10(value)
        prec == f.precision
        e == extract_digits(value, exp)
        digits == adjust_prec(adjust_zeros(e.digits, 0), 0, prec)
    IN [chars |-> chars \o place_decimal(digits, 0), ext |-> e]

\* No digits were extracted.
NoExt == [raw |-> <<>>, iters |-> 0, pos |-> 0, digits |-> <<>>]

\* <Quad as Display>::fmt
Display_fmt(self, f) ==
    LET s == push_sign(<<>>, self, f)
        body == IF quad_is_nan(self.c)
                THEN [chars |-> push_nan(s.chars), ext |-> NoExt]
                ELSE IF quad_is_infinite(self.c)
                THEN [chars |-> push_inf(s.chars), ext |-> NoExt]
                ELSE IF quad_is_zero(self.c)
                THEN [chars |-> push_zero(s.chars, f), ext |-> NoExt]
                ELSE push_digits_fixed(s.chars, self, f)
    IN [out |-> align_and_fill(body.chars, s.signed, f), ext |-> body.ext]

\* A variant of LowerExp::fmt that appends the exponent to every value.
LowerExp_fmt_always(self, f) ==
    LET s == push_sign(<<>>, self, f)
        body == IF quad_is_nan(self.c)
                THEN [chars |-> push_nan(s.chars), ext |-> NoExt]
                ELSE IF quad_is_infinite(self.c)
                THEN [chars |-> push_inf(s.chars), ext |-> NoExt]
                ELSE IF quad_is_zero(self.c)
                THEN [chars |-> push_zero(s.chars, f), ext |-> NoExt]
                ELSE push_digits_exp(s.chars, self, f)
        tail == push_exp(body.chars, "e", 0)
    IN [out |-> align_and_fill(tail, s.signed, f), ext |-> body.ext]

\* <Quad as LowerExp>::fmt
LowerExp_fmt(self, f) ==
    LET s == push_sign(<<>>, self, f)
        body == IF quad_is_nan(self.c)
                THEN [chars |-> push_nan(s.chars), ext |-> NoExt]
                ELSE IF quad_is_infinite(self.c)
                THEN [chars |-> push_inf(s.chars), ext |-> NoExt]
                ELSE IF quad_is_zero(self.c)
                THEN [chars |-> push_zero(s.chars, f), ext |-> NoExt]
                ELSE push_digits_exp(s.chars, self, f)
        exp == IF quad_is_zero(self.c) THEN 0 ELSE floor_log10(self)
        tail == IF quad_is_finite(self.c)
                THEN push_exp(body.chars, "e", exp)
                ELSE body.chars
    IN [out |-> align_and_fill(tail, s.signed, f), ext |-> body.ext]

\* <Quad as UpperExp>::fmt
UpperExp_fmt(self, f) ==
    LET s == push_sign(<<>>, self, f)
        body == IF quad_is_nan(self.c)
                THEN [chars |-> push_nan(s.chars), ext |-> NoExt]
                ELSE IF quad_is_infinite(self.c)
                THEN [chars |-> push_inf(s.chars), ext |-> NoExt]
                ELSE IF quad_is_zero(self.c)
                THEN [chars |-> push_zero(s.chars, f), ext |-> NoExt]
                ELSE push_digits_exp(s.chars, self, f)
        exp == IF quad_is_zero(self.c) THEN 0 ELSE floor_log10(self)
        tail == IF quad_is_finite(self.c)
                THEN push_exp(body.chars, "E", exp)
                ELSE body.chars
    IN [out |-> align_and_fill(tail, s.signed, f), ext |-> body.ext]

Traits == {"Display", "LowerExp", "UpperExp"}

fmt(tr, self, f) ==
    CASE tr = "Display" -> Display_fmt(self, f)
      [] tr = "LowerExp" -> LowerExp_fmt(self, f)
      [] tr = "UpperExp" -> UpperExp_fmt(self, f)

\* ------------------------------------------------------------ the inputs

\* Leading components: zeros, infinities, NaNs, powers of two near one and
\* the powers of two 2^BigExp and 2^(-BigExp), whose squares leave the
\* binary64 range, each with both signs.
HiSamples ==
    LET pos == {PosZero, PosInf}
               \cup {QNaN(p) : p \in 0..MaxPayload}
               \cup {Pow2(k) : k \in (0 - MaxExp)..MaxExp}
               \cup {Pow2(BigExp), Pow2(0 - BigExp)}
    IN pos \cup {F64Neg(f) : f \in pos}

\* Trailing components: +0 (the canonical tail), a NaN, and a value far below
\* half an ulp of every leading sample near one, with both signs.
LoSamples ==
    {PosZero, QNaN(0), Pow2(0 - LoExp), F64Neg(Pow2(0 - LoExp))}

\* Every pair is a value the program can hold: from_bits builds a Double from
\* any 128-bit pattern.
Doubles == {Double(h, l) : h \in HiSamples, l \in LoSamples}

\* The number of components of a type.
Width(ty) == IF ty = "Double" THEN 2 ELSE 4

\* The items of a sum: NaN, the infinities, the zeros, the non-zero integers
\* up to MaxInt in magnitude, and +-2^1023, two of which overflow.
SumItems(ty) ==
    LET k == Width(ty)
    IN {WideNan(k)}
       \cup {WideInf(k, s) : s \in BOOLEAN}
       \cup {WideZero(k, s) : s \in BOOLEAN}
       \cup {Wide(k, IntF64(n), PosZero) :
                 n \in ((0 - MaxInt)..MaxInt) \ {0}}
       \cup {Wide(k, WithSign(s, Pow2(1023)), PosZero) : s \in BOOLEAN}

\* The items of a product: NaN, the infinities, the zeros, and the powers of
\* two 1, 2, 2^BigExp and 2^(-BigExp) with both signs; two of the large ones
\* overflow and two of the small ones underflow.
ProductItems(ty) ==
    LET k == Width(ty)
    IN {WideNan(k)}
       \cup {WideInf(k, s) : s \in BOOLEAN}
       \cup {WideZero(k, s) : s \in BOOLEAN}
       \cup {Wide(k, WithSign(s, Pow2(e)), PosZero) :
                 s \in BOOLEAN, e \in {0 - BigExp, 0, 1, BigExp}}

Items(ty, kind) == IF kind \in Sums THEN SumItems(ty) ELSE ProductItems(ty)

\* The values handed to the formatter.

\* 1.5
V_1_5 ==
    [c |-> <<<<63, 248, 0, 0, 0, 0, 0, 0>>,
          <<0, 0, 0, 0, 0, 0, 0, 0>>,
          <<0, 0, 0, 0, 0, 0, 0, 0>>,
          <<0, 0, 0, 0, 0, 0, 0, 0>>>>,
     lg |-> 0,
     e10 |-> 0,
     mant |-> <<1, 5>>]

\* -1.5
V_neg_1_5 ==
    [c |-> <<<<191, 248, 0, 0, 0, 0, 0, 0>>,
          <<0, 0, 0, 0, 0, 0, 0, 0>>,
          <<0, 0, 0, 0, 0, 0, 0, 0>>,
          <<0, 0, 0, 0, 0, 0, 0, 0>>>>,
     lg |-> 0,
     e10 |-> 0,
     mant |-> <<1, 5>>]

\* 9.96
V_9_96 ==
    [c |-> <<<<64, 35, 235, 133, 30, 184, 81, 236>>,
          <<188, 206, 184, 81, 235, 133, 30, 184>>,
          <<185, 100, 122, 225, 71, 174, 20, 123>>,
          <<53, 238, 184, 81, 235, 133, 30, 184>>>>,
     lg |-> 0,
     e10 |-> 0,
     mant |-> <<9, 9, 6>>]

\* 0.69
V_0_69 ==
    [c |-> <<<<63, 230, 20, 122, 225, 71, 174, 20>>,
          <<60, 142, 184, 81, 235, 133, 30, 184>>,
          <<57, 36, 122, 225, 71, 174, 20, 123>>,
          <<181, 174, 184, 81, 235, 133, 30, 184>>>>,
     lg |-> 0 - 1,
     e10 |-> 0 - 1,
     mant |-> <<6, 9>>]

\* 0.016777216
V_0_016777216 ==
    [c |-> <<<<63, 145, 46, 11, 232, 38, 214, 149>>,
          <<188, 51, 70, 116, 191, 171, 184, 59>>,
          <<184, 213, 159, 158, 4, 81, 55, 68>>,
          <<53, 33, 171, 172, 159, 56, 114, 150>>>>,
     lg |-> 0 - 2,
     e10 |-> 0 - 2,
     mant |-> <<1, 6, 7, 7, 7, 2, 1, 6>>]

\* 123456
V_123456 ==
    [c |-> <<<<64, 254, 36, 0, 0, 0, 0, 0>>,
          <<0, 0, 0, 0, 0, 0, 0, 0>>,
          <<0, 0, 0, 0, 0, 0, 0, 0>>,
          <<0, 0, 0, 0, 0, 0, 0, 0>>>>,
     lg |-> 5,
     e10 |-> 5,
     mant |-> <<1, 2, 3, 4, 5, 6>>]

\* 1 - 6e-17: the leading component is the binary64 below 1
V_below_one ==
    [c |-> <<<<63, 239, 255, 255, 255, 255, 255, 255>>,
          <<60, 141, 105, 144, 22, 149, 193, 30>>,
          <<57, 25, 39, 22, 24, 30, 144, 124>>,
          <<53, 147, 69, 184, 10, 177, 125, 252>>>>,
     lg |-> 0 - 1,
     e10 |-> 0 - 1,
     mant |-> <<9, 9, 9, 9, 9, 9, 9, 9, 9, 9, 9, 9, 9, 9, 9, 9, 4>>]

\* 1 - 1e-20: the leading component is 1
V_near_one ==
    [c |-> <<<<63, 240, 0, 0, 0, 0, 0, 0>>,
          <<187, 199, 156, 161, 12, 146, 66, 35>>,
          <<184, 103, 84, 71, 165, 216, 229, 54>>,
          <<52, 232, 83, 223, 63, 10, 191, 211>>>>,
     lg |-> 0,
     e10 |-> 0 - 1,
     mant |-> <<9, 9, 9, 9, 9, 9, 9, 9, 9, 9, 9, 9, 9, 9, 9, 9, 9, 9, 9, 9>>]

\* 999.9999999999999: log10 of the leading component rounds to 3
V_below_1000 ==
    [c |-> <<<<64, 143, 63, 255, 255, 255, 255, 255>>,
          <<61, 14, 209, 236, 189, 180, 75, 242>>,
          <<185, 131, 40, 101, 165, 242, 6, 176>>,
          <<182, 43, 238, 98, 61, 48, 228, 143>>>>,
     lg |-> 3,
     e10 |-> 2,
     mant |-> <<9, 9, 9, 9, 9, 9, 9, 9, 9, 9, 9, 9, 9, 9, 9, 9>>]

\* pi to 64 digits
V_pi ==
    [c |-> <<<<64, 9, 33, 251, 84, 68, 45, 24>>,
          <<60, 161, 166, 38, 51, 20, 92, 7>>,
          <<185, 47, 25, 118, 183, 237, 143, 188>>,
          <<53, 196, 207, 152, 232, 4, 23, 109>>>>,
     lg |-> 0,
     e10 |-> 0,
     mant |-> <<3, 1, 4, 1, 5, 9, 2, 6, 5, 3, 5, 8, 9, 7, 9, 3, 2, 3, 8, 4,
              6, 2, 6, 4, 3, 3, 8, 3, 2, 7, 9, 5, 0, 2, 8, 8, 4, 1, 9, 7, 1,
              6, 9, 3, 9, 9, 3, 7, 5, 1, 0, 5, 8, 2, 0, 9, 7, 4, 9, 4, 4, 5,
              9, 2>>]

\* 1.23456789012345678901234567890123456789e308
V_large ==
    [c |-> <<<<127, 229, 249, 221, 158, 219, 24, 93>>,
          <<124, 126, 17, 155, 159, 43, 6, 17>>,
          <<249, 31, 163, 37, 97, 44, 128, 35>>,
          <<245, 143, 229, 205, 189, 154, 83, 95>>>>,
     lg |-> 308,
     e10 |-> 308,
     mant |-> <<1, 2, 3, 4, 5, 6, 7, 8, 9, 0, 1, 2, 3, 4, 5, 6, 7, 8, 9, 0,
              1, 2, 3, 4, 5, 6, 7, 8, 9, 0, 1, 2, 3, 4, 5, 6, 7, 8, 9>>]

\* 1.234567890123456789e-308
V_small ==
    [c |-> <<<<0, 8, 224, 163, 162, 188, 48, 31>>,
          <<0, 0, 0, 0, 0, 0, 0, 0>>,
          <<0, 0, 0, 0, 0, 0, 0, 0>>,
          <<0, 0, 0, 0, 0, 0, 0, 0>>>>,
     lg |-> 0 - 308,
     e10 |-> 0 - 308,
     mant |-> <<1, 2, 3, 4, 5, 6, 7, 8, 9, 0, 1, 2, 3, 4, 5, 6, 7, 8, 9>>]

\* A value with the components c that is not finite or is zero.
Special(c) == [c |-> c, lg |-> 0, e10 |-> 0, mant |-> <<>>]

\* 1 in the leading component and NaN in the second.
V_one_nan_below ==
    [c |-> <<Pow2(0), QNaN(0), PosZero, PosZero>>,
     lg |-> 0, e10 |-> 0, mant |-> <<1>>]

FiniteValues ==
    {V_1_5, V_neg_1_5, V_9_96, V_0_69, V_0_016777216, V_123456, V_below_one,
     V_near_one, V_below_1000, V_pi, V_large, V_small}

SpecialValues ==
    {Special(WideNan(4)),
     Special([i \in 1..4 |-> F64Neg(QNaN(0))]),
     Special(WideInf(4, FALSE)),
     Special(WideInf(4, TRUE)),
     Special(WideZero(4, FALSE)),
     Special(WideZero(4, TRUE)),
     Special(<<PosZero, QNaN(0), PosZero, PosZero>>)}

FmtValues == FiniteValues \cup SpecialValues \cup {V_one_nan_below}

\* The format specifications: sign-plus, precision, width, fill character,
\* alignment and the zero flag.  Fill, alignment and the zero flag act only
\* on a format with a width; the zero flag overrides fill and alignment.
Formats ==
    LET pads == {[width |-> None, fill |-> " ", align |-> "unknown",
                  zero_pad |-> FALSE],
                 [width |-> Some(MaxWidth), fill |-> " ", align |-> "unknown",
                  zero_pad |-> TRUE]}
                \cup {[width |-> Some(MaxWidth), fill |-> c, align |-> a,
                       zero_pad |-> FALSE] :
                          c \in {" ", "*"},
                          a \in {"unknown", "left", "center", "right"}}
    IN {[sign_plus |-> sp, precision |-> pr, width |-> pd.width,
         fill |-> pd.fill, align |-> pd.align, zero_pad |-> pd.zero_pad] :
            sp \in BOOLEAN,
            pr \in {None} \cup {Some(n) : n \in 0..MaxPrec},
            pd \in pads}

\* ------------------------------------------------------------ the machine

\* endian: the byte order of the build target.
\* y, x:   the operands of a call (self and other).
\* op:     the calls made so far, in order.
\* res:    what the last call returned.
\* branch: the arm of atan2's case analysis that returned.
\* steps:  the number of Newton updates the last atan2 ran.
\* bytes:  the byte array the last to_*_bytes returned.
\* fty:    the type a fold runs over, "Double" or "Quad".
\* fkind:  the fold: sum or product, by value or by reference.
\* seq:    the items the fold has consumed so far.
\* acc:    the accumulator of the fold.
\* pc:     where the fold stands: "idle", "fold" or "done".
\* fval:   the Quad handed to the formatter.
\* ftrait: the formatting trait called.
\* fflags: the format specification.
\* fout:   the characters written.
\* fext:   what extract_digits did during the call.
\* fdone:  whether the call has returned.
\* fpc:    where the call stands: "call", "loop" (in the loop of
\*         extract_digits) or "ret".
VARIABLES endian, y, x, op, res, branch, steps, bytes,
          fty, fkind, seq, acc, pc,
          fval, ftrait, fflags, fout, fext, fdone, fpc,
          tval, texp, tpos, tpc

basevars == <<endian, y, x, op, res, branch, steps, bytes>>

foldvars == <<fty, fkind, seq, acc, pc>>

fmtvars == <<fval, ftrait, fflags, fout, fext, fdone, fpc, floop>>

posvars == <<tval, texp, tpos, tpc>>

vars == <<basevars, foldvars, fmtvars, posvars>>

\* The variables of the truncation position while none is computed.
NoPos ==
    /\ tval = PosZero
    /\ texp = 0
    /\ tpos = 0
    /\ tpc = "idle"

\* The loop state outside the loop.
NoLoop == [v |-> [neg |-> FALSE, ip |-> 0, fr |-> <<>>],
           digits |-> <<>>, iters |-> 0]

\* The formatter variables while nothing is formatted.
NoFmt ==
    /\ fval = Special(WideZero(4, FALSE))
    /\ ftrait = "Display"
    /\ fflags = [sign_plus |-> FALSE, precision |-> None, width |-> None,
                 fill |-> " ", align |-> "unknown", zero_pad |-> FALSE]
    /\ fout = <<>>
    /\ fext = NoExt
    /\ fdone = FALSE
    /\ fpc = "call"
    /\ floop = NoLoop

\* The fold variables while no fold runs.
NoFold ==
    /\ fty = "Double"
    /\ fkind = "sum"
    /\ seq = <<>>
    /\ acc = <<>>
    /\ pc = "idle"

Init ==
    /\ endian \in Endians
    /\ y \in Doubles
    /\ x \in Doubles
    /\ op = <<>>
    /\ res = ZERO
    /\ branch = "none"
    /\ steps = 0
    /\ bytes = <<>>
    /\ NoFold
    /\ NoFmt
    /\ NoPos

\* y.atan2(x)
Atan2 ==
    /\ op = <<>>
    /\ op' = <<"atan2">>
    /\ res' = atan2(y, x).value
    /\ branch' = atan2(y, x).branch
    /\ steps' = atan2(y, x).steps
    /\ UNCHANGED <<endian, y, x, bytes>>
    /\ UNCHANGED foldvars
    /\ UNCHANGED fmtvars
    /\ UNCHANGED posvars

\* y.min(x)
Min ==
    /\ op = <<>>
    /\ op' = <<"min">>
    /\ res' = min(y, x)
    /\ UNCHANGED <<endian, y, x, branch, steps, bytes>>
    /\ UNCHANGED foldvars
    /\ UNCHANGED fmtvars
    /\ UNCHANGED posvars

\* y.max(x)
Max ==
    /\ op = <<>>
    /\ op' = <<"max">>
    /\ res' = max(y, x)
    /\ UNCHANGED <<endian, y, x, branch, steps, bytes>>
    /\ UNCHANGED foldvars
    /\ UNCHANGED fmtvars
    /\ UNCHANGED posvars

Next == Atan2 \/ Min \/ Max

Spec == Init /\ [][Next]_vars

\* The byte conversions: y.to_X_bytes() and then Double::from_X'_bytes of the
\* array, for any two byte orders X and X'.
InitBytes ==
    /\ endian \in Endians
    /\ y \in Doubles
    /\ x = ZERO
    /\ op = <<>>
    /\ res = ZERO
    /\ branch = "none"
    /\ steps = 0
    /\ bytes = <<>>
    /\ NoFold
    /\ NoFmt
    /\ NoPos

ToBytes ==
    /\ op = <<>>
    /\ \E o \in Orders :
        /\ op' = <<<<"to", o>>>>
        /\ bytes' = to_bytes(o, endian, y)
    /\ UNCHANGED <<endian, y, x, res, branch, steps>>
    /\ UNCHANGED foldvars
    /\ UNCHANGED fmtvars
    /\ UNCHANGED posvars

FromBytes ==
    /\ Len(op) = 1
    /\ op[1][1] = "to"
    /\ \E o \in Orders :
        /\ op' = Append(op, <<"from", o>>)
        /\ res' = from_bytes(o, endian, bytes)
    /\ UNCHANGED <<endian, y, x, branch, steps, bytes>>
    /\ UNCHANGED foldvars
    /\ UNCHANGED fmtvars
    /\ UNCHANGED posvars

NextBytes == ToBytes \/ FromBytes

SpecBytes == InitBytes /\ [][NextBytes]_vars

\* The folds: Iterator::sum and Iterator::product over up to MaxLen items of
\* Double or Quad, by value or by reference.  fold takes the initial
\* accumulator, applies the closure to every item the iterator yields, and
\* returns the accumulator when the iterator is exhausted.
InitFold ==
    /\ endian = "little"
    /\ y = ZERO
    /\ x = ZERO
    /\ op = <<>>
    /\ res = ZERO
    /\ branch = "none"
    /\ steps = 0
    /\ bytes = <<>>
    /\ fty \in Types
    /\ fkind \in Sums \cup Products
    /\ seq = <<>>
    /\ acc = <<>>
    /\ pc = "idle"
    /\ NoFmt
    /\ NoPos

FoldBegin ==
    /\ pc = "idle"
    /\ pc' = "fold"
    /\ acc' = fold_init(fty, fkind)
    /\ UNCHANGED <<fty, fkind, seq>>
    /\ UNCHANGED basevars
    /\ UNCHANGED fmtvars
    /\ UNCHANGED posvars

FoldItem ==
    /\ pc = "fold"
    /\ Len(seq) < MaxLen
    /\ \E b \in Items(fty, fkind) :
        /\ acc' = fold_f(fty, fkind, acc, b)
        /\ seq' = Append(seq, b)
    /\ UNCHANGED <<fty, fkind, pc>>
    /\ UNCHANGED basevars
    /\ UNCHANGED fmtvars
    /\ UNCHANGED posvars

FoldEnd ==
    /\ pc = "fold"
    /\ pc' = "done"
    /\ op' = <<fkind>>
    /\ res' = acc
    /\ UNCHANGED <<fty, fkind, seq, acc>>
    /\ UNCHANGED <<endian, y, x, branch, steps, bytes>>
    /\ UNCHANGED fmtvars
    /\ UNCHANGED posvars

NextFold == FoldBegin \/ FoldItem \/ FoldEnd

SpecFold == InitFold /\ [][NextFold]_vars

\* Formatting: a call of Display::fmt, LowerExp::fmt or UpperExp::fmt on a
\* Quad with a format specification.
InitFmt ==
    /\ endian = "little"
    /\ y = ZERO
    /\ x = ZERO
    /\ op = <<>>
    /\ res = ZERO
    /\ branch = "none"
    /\ steps = 0
    /\ bytes = <<>>
    /\ NoFold
    /\ fval \in FmtValues
    /\ ftrait \in Traits
    /\ fflags \in Formats
    /\ fout = <<>>
    /\ fext = NoExt
    /\ fdone = FALSE
    /\ fpc = "call"
    /\ floop = NoLoop
    /\ NoPos

\* The call reaches extract_digits, which scales the value and enters its
\* loop.
FmtEnter ==
    /\ fpc = "call"
    /\ needs_digits(fval)
    /\ fpc' = "loop"
    /\ floop' = loop_enter(fval, floor_log10(fval))
    /\ UNCHANGED <<fval, ftrait, fflags, fout, fext, fdone>>
    /\ UNCHANGED basevars
    /\ UNCHANGED foldvars
    /\ UNCHANGED posvars

\* One iteration of the loop.
FmtDigit ==
    /\ fpc = "loop"
    /\ floop.iters < loop_count
    /\ floop' = loop_body(floop)
    /\ UNCHANGED <<fval, ftrait, fflags, fout, fext, fdone, fpc>>
    /\ UNCHANGED basevars
    /\ UNCHANGED foldvars
    /\ UNCHANGED posvars

\* The rest of the call: behind the loop for a value that has digits, the
\* whole call for the others.
Fmt ==
    /\ \/ fpc = "call" /\ ~needs_digits(fval)
       \/ fpc = "loop" /\ floop.iters >= loop_count
    /\ fpc' = "ret"
    /\ fdone' = TRUE
    /\ \E r \in {fmt(ftrait, fval, fflags)} :
        /\ fout' = r.out
        /\ fext' = r.ext
    /\ UNCHANGED <<fval, ftrait, fflags, floop>>
    /\ UNCHANGED basevars
    /\ UNCHANGED foldvars
    /\ UNCHANGED posvars

NextFmt == FmtEnter \/ FmtDigit \/ Fmt

SpecFmt == InitFmt /\ [][NextFmt]_vars

\* Every operation on wide values: atan2, min and max, the byte conversions
\* and the folds, each from its own initial states.  A run performs one of
\* them: a call on y and x, a conversion of y to bytes and back, or a fold.
InitOps == Init \/ InitBytes \/ InitFold

NextOps ==
    \/ NoFold /\ bytes = <<>> /\ Next
    \/ NoFold /\ (op = <<>> \/ bytes # <<>>) /\ NextBytes
    \/ /\ y = ZERO /\ x = ZERO /\ endian = "little"
       /\ (op = <<>> \/ pc # "idle")
       /\ NextFold

SpecOps == InitOps /\ [][NextOps]_vars

\* The truncation position of extract_digits for the leading components the
\* digit functions may meet: every power of two, normal and subnormal, and
\* the largest binary64 below every power of two, with both signs.
PosSamples ==
    LET pos == {Pow2F64(e) : e \in (0 - 1074)..1023}
               \cup {PrevF64(Pow2F64(e)) : e \in (0 - 1073)..1024}
    IN pos \cup {F64Neg(f) : f \in pos}

InitPos ==
    /\ endian = "little"
    /\ y = ZERO
    /\ x = ZERO
    /\ op = <<>>
    /\ res = ZERO
    /\ branch = "none"
    /\ steps = 0
    /\ bytes = <<>>
    /\ NoFold
    /\ NoFmt
    /\ tval \in PosSamples
    /\ texp = 0
    /\ tpos = 0
    /\ tpc = "call"

\* let value = value.abs(); let exp = libm::floor(libm::log10(value.0)) as i32;
Log10Exp ==
    /\ tpc = "call"
    /\ texp' = floor_log10_f64(F64Abs(tval))
    /\ tpc' = "digits"
    /\ UNCHANGED <<tval, tpos>>
    /\ UNCHANGED basevars
    /\ UNCHANGED foldvars
    /\ UNCHANGED fmtvars

\* (324 + exp).min(MAX_ACCURACY as i32), the value cast to usize.
TruncPos ==
    /\ tpc = "digits"
    /\ tpos' = trunc_pos(texp)
    /\ tpc' = "ret"
    /\ UNCHANGED <<tval, texp>>
    /\ UNCHANGED basevars
    /\ UNCHANGED foldvars
    /\ UNCHANGED fmtvars

NextPos == Log10Exp \/ TruncPos

SpecPos == InitPos /\ [][NextPos]_vars


\* ------------------------------------------------------------ the claims

\* The sign of the value a Double stands for is the sign of its leading
\* component.
Positive(d) == F64Lt(PosZero, d[1])

Negative(d) == F64Lt(d[1], PosZero)

CalledAtan2 == op = <<"atan2">>

\* C1: atan2 returns NaN whenever y is NaN or x is NaN, whatever the other
\* argument is (zeros and infinities included).
\* The antecedent asks for a NaN leading component, which is a NaN on every
\* reading of "is NaN".
C1_NanInNanOut ==
    (CalledAtan2 /\ (F64IsNan(y[1]) \/ F64IsNan(x[1]))) => is_nan(res)

\* C2 as stated: for every finite y, zero included, and x = +-inf, atan2
\* returns 0.
C2_FiniteYInfX_Original ==
    (CalledAtan2 /\ is_finite(y) /\ is_infinite(x)) => res = ZERO

\* C2 as amended: for every finite non-zero y and x = +-inf, atan2 returns 0
\* whatever the sign of x.
C2_FiniteNonZeroYInfX ==
    (CalledAtan2 /\ is_finite(y) /\ ~is_zero(y) /\ is_infinite(x))
        => res = ZERO

C2_Witness ==
    /\ CalledAtan2
    /\ is_finite(y)
    /\ ~is_zero(y)
    /\ is_infinite(x)
    /\ ~is_sign_positive(x)
    /\ res = ZERO

\* C3: with x = +-0, atan2 is NaN when y is zero, +pi/2 when y > 0 and -pi/2
\* when y < 0, infinite y included.
C3_XZero ==
    (CalledAtan2 /\ is_zero(x)) =>
        /\ is_zero(y) => is_nan(res)
        /\ Positive(y) => res = FRAC_PI_2
        /\ Negative(y) => res = neg(FRAC_PI_2)

C3_Witness ==
    /\ CalledAtan2
    /\ is_zero(x)
    /\ is_infinite(y)
    /\ Negative(y)
    /\ res = neg(FRAC_PI_2)

\* C4: with y = +-0 and x not zero, atan2 returns 0 when x > 0 and pi when
\* x < 0.
C4_YZero ==
    (CalledAtan2 /\ is_zero(y) /\ ~is_zero(x)) =>
        /\ Positive(x) => res = ZERO
        /\ Negative(x) => res = PI

C4_Witness ==
    /\ CalledAtan2
    /\ is_zero(y)
    /\ ~is_sign_positive(y)
    /\ Negative(x)
    /\ res = PI

\* C5: with y = +-inf, atan2 is NaN when x is +-inf, and for every other x it
\* is +pi/2 for y = +inf and -pi/2 for y = -inf.
C5_YInf ==
    (CalledAtan2 /\ is_infinite(y)) =>
        IF is_infinite(x) THEN is_nan(res)
        ELSE IF is_sign_positive(y) THEN res = FRAC_PI_2
        ELSE res = neg(FRAC_PI_2)

C5_Witness ==
    /\ CalledAtan2
    /\ is_infinite(y)
    /\ ~is_sign_positive(y)
    /\ is_nan(x)
    /\ res = neg(FRAC_PI_2)

\* C6: for finite non-zero y and x, y == x gives pi/4 for a positive y and
\* -3pi/4 for a negative y, y == -x gives 3pi/4 for a positive y and -pi/4 for
\* a negative y, and neither runs the Newton step.
C6_Diagonals ==
    (/\ CalledAtan2
     /\ is_finite(y) /\ ~is_zero(y)
     /\ is_finite(x) /\ ~is_zero(x)) =>
        /\ eq(y, x) =>
            /\ steps = 0
            /\ res = IF is_sign_positive(y) THEN FRAC_PI_4
                     ELSE neg(FRAC_3_PI_4)
        /\ eq(y, neg(x)) =>
            /\ steps = 0
            /\ res = IF is_sign_positive(y) THEN FRAC_3_PI_4
                     ELSE neg(FRAC_PI_4)

C6_Witness ==
    /\ CalledAtan2
    /\ is_finite(y) /\ ~is_zero(y)
    /\ eq(y, x)
    /\ ~is_sign_positive(y)
    /\ y[2] # PosZero
    /\ steps = 0
    /\ res = neg(FRAC_3_PI_4)

\* A value the case analysis can return: a Double (two binary64 patterns) from
\* an exact arm, or the Newton term from the general arm.
IsF64(f) == Len(f) = 8 /\ \A i \in 1..8 : f[i] \in 0..255

IsDouble(d) == Len(d) = 2 /\ IsF64(d[1]) /\ IsF64(d[2])

\* The class of an argument: its leading component is a NaN, an infinity, a
\* zero or a finite non-zero number, of either sign.
Class(d) ==
    <<SignBit(d[1]),
      IF F64IsNan(d[1]) THEN "nan"
      ELSE IF F64IsInfinite(d[1]) THEN "inf"
      ELSE IF F64IsZero(d[1]) THEN "zero"
      ELSE "finite">>

\* C7: atan2 never traps: for every combination of argument classes one arm
\* of the case analysis applies and a Double, possibly NaN, is returned.
C7_Total ==
    CalledAtan2 =>
        /\ branch \in Arms
        /\ steps = IF branch = "general" THEN 1 ELSE 0
        /\ IF branch = "general"
           THEN res.seed = <<y[1], x[1]>> /\ res.form \in {"sin", "cos"}
           ELSE IsDouble(res)

C7_Witness ==
    /\ CalledAtan2
    /\ Class(y) = <<TRUE, "nan">>
    /\ Class(x) = <<TRUE, "inf">>
    /\ branch = "x_inf"
    /\ IsDouble(res)

\* The values the exact arms may return.
ExactAngles ==
    {ZERO, FRAC_PI_4, neg(FRAC_PI_4), FRAC_PI_2, neg(FRAC_PI_2),
     FRAC_3_PI_4, neg(FRAC_3_PI_4), PI}

\* C8: a result from an exact arm is NaN or an angle in [-pi, pi], and is one
\* of 0, +-pi/4, +-pi/2, +-3pi/4, pi.
C8_ExactRange ==
    (CalledAtan2 /\ branch # "general") =>
        \/ is_nan(res)
        \/ /\ res \in ExactAngles
           /\ partial_cmp(neg(PI), res) \in {"Less", "Equal"}
           /\ partial_cmp(res, PI) \in {"Less", "Equal"}

C8_Witness ==
    /\ CalledAtan2
    /\ branch = "y_eq_x"
    /\ res = neg(FRAC_3_PI_4)
    /\ partial_cmp(neg(PI), res) = "Less"

\* C9: min and max return the operand partial_cmp selects (min: self on Less
\* or Equal, other on Greater; max: other on Less or Equal, self on Greater),
\* both return other when the operands are unordered, and the result is one of
\* the two operands, unchanged.
C9_MinMax ==
    /\ op = <<"min">> =>
        /\ res \in {y, x}
        /\ partial_cmp(y, x) \in {"Less", "Equal"} => res = y
        /\ partial_cmp(y, x) = "Greater" => res = x
        /\ partial_cmp(y, x) = "None" => res = x
    /\ op = <<"max">> =>
        /\ res \in {y, x}
        /\ partial_cmp(y, x) \in {"Less", "Equal"} => res = x
        /\ partial_cmp(y, x) = "Greater" => res = y
        /\ partial_cmp(y, x) = "None" => res = x

C9_Witness ==
    /\ op = <<"min">>
    /\ partial_cmp(y, x) = "None"
    /\ is_nan(x)
    /\ ~is_nan(y)
    /\ res = x

\* C10: for every Double v, NaN payloads included, from_X_bytes(to_X_bytes(v))
\* is bit-identical to v, for X = ne, be and le.
C10_ByteRoundTrip ==
    \A o \in Orders :
        op = <<<<"to", o>>, <<"from", o>>>> => res = y

C10_Witness ==
    /\ op = <<<<"to", "le">>, <<"from", "le">>>>
    /\ endian = "big"
    /\ y[1] = F64Neg(QNaN(1))
    /\ y[2] = Pow2(0 - LoExp)
    /\ bytes[16] = 255
    /\ res = y

\* A fold has returned.
FoldDone == pc = "done"

\* C11: the sum of an empty sequence is ZERO and the product of an empty
\* sequence is ONE, for Double and for Quad, by value and by reference.
C11_EmptyFold ==
    (FoldDone /\ seq = <<>>) =>
        res = Wide(Width(fty),
                   IF fkind \in Sums THEN PosZero ELSE Pow2(0), PosZero)

C11_Witness ==
    FoldDone /\ seq = <<>> /\ fty = "Quad" /\ fkind = "product_ref"

\* The accumulator of the fold of type ty and kind kind after the first n
\* items of s.
RECURSIVE FoldOf(_, _, _, _)
FoldOf(ty, kind, s, n) ==
    IF n = 0 THEN fold_init(ty, kind)
    ELSE fold_f(ty, kind, FoldOf(ty, kind, s, n - 1), s[n])

\* What a sequence of items holds, read on the leading components.
HasNan(s) == \E i \in 1..Len(s) : F64IsNan(s[i][1])

HasZero(s) == \E i \in 1..Len(s) : F64IsZero(s[i][1])

HasInf(s, neg_) ==
    \E i \in 1..Len(s) : F64IsInfinite(s[i][1]) /\ SignBit(s[i][1]) = neg_

\* The exclusive or of the sign bits of the items.
SignXor(s) == Cardinality({i \in 1..Len(s) : SignBit(s[i][1])}) % 2 = 1

IsInf(v, neg_) == F64IsInfinite(v[1]) /\ SignBit(v[1]) = neg_

ProductDone == FoldDone /\ fkind \in Products

SumDone == FoldDone /\ fkind \in Sums

\* C12 as stated: the product of a sequence of infinities and non-zero finite
\* values, at least one of them infinite, is the infinity whose sign is the
\* exclusive or of the signs of all items.
C12_Original ==
    (ProductDone /\ ~HasNan(seq) /\ ~HasZero(seq)
     /\ (HasInf(seq, FALSE) \/ HasInf(seq, TRUE)))
        => IsInf(res, SignXor(seq))

\* C12: the product of a sequence of infinities and non-zero finite values,
\* at least one of them infinite, is the infinity whose sign is the exclusive
\* or of the signs of all items, provided no partial product has underflowed
\* to zero; in particular the product of +inf and -inf is -inf, not NaN.
C12_InfProduct ==
    (ProductDone /\ ~HasNan(seq) /\ ~HasZero(seq)
     /\ (HasInf(seq, FALSE) \/ HasInf(seq, TRUE))
     /\ \A n \in 0..Len(seq) : ~F64IsZero(FoldOf(fty, fkind, seq, n)[1]))
        => IsInf(res, SignXor(seq))

C12_Witness ==
    /\ ProductDone
    /\ Len(seq) = 2
    /\ IsInf(seq[1], FALSE)
    /\ IsInf(seq[2], TRUE)
    /\ IsInf(res, TRUE)

\* C13: NaN is absorbing in the sum and product folds: once the accumulator
\* is NaN it stays NaN for every later item, and a sequence with a NaN at any
\* position folds to NaN.
C13_NanAbsorbing ==
    /\ []((FoldDone /\ HasNan(seq)) => F64IsNan(res[1]))
    /\ [][(pc = "fold" /\ F64IsNan(acc[1])) => F64IsNan(acc'[1])]_vars

C13_Witness ==
    /\ FoldDone
    /\ Len(seq) = 3
    /\ F64IsNan(seq[1][1])
    /\ IsInf(seq[2], TRUE)
    /\ F64IsZero(seq[3][1])
    /\ F64IsNan(res[1])

\* The sum of a sequence that holds both infinities is NaN.
BothInfSumNan ==
    (SumDone /\ HasInf(seq, FALSE) /\ HasInf(seq, TRUE)) => F64IsNan(res[1])

\* C14 as stated: the sum of a sequence that holds both +inf and -inf is NaN;
\* the sum of a NaN-free sequence whose infinities all have one sign is that
\* infinity.
C14_Original ==
    /\ BothInfSumNan
    /\ \A s \in BOOLEAN :
        (SumDone /\ ~HasNan(seq) /\ HasInf(seq, s) /\ ~HasInf(seq, ~s))
            => IsInf(res, s)

\* C14: the sum of a sequence that holds both +inf and -inf is NaN, whatever
\* their order and the items between them; the sum of a NaN-free sequence
\* whose infinities all have one sign is that infinity, provided no partial
\* sum has overflowed to the infinity of the other sign.
C14_InfSum ==
    /\ BothInfSumNan
    /\ \A s \in BOOLEAN :
        (SumDone /\ ~HasNan(seq) /\ HasInf(seq, s) /\ ~HasInf(seq, ~s)
         /\ \A n \in 0..Len(seq) : ~IsInf(FoldOf(fty, fkind, seq, n), ~s))
            => IsInf(res, s)

C14_Witness ==
    /\ SumDone
    /\ Len(seq) = 3
    /\ IsInf(seq[1], TRUE)
    /\ seq[2][1] = IntF64(2)
    /\ IsInf(seq[3], FALSE)
    /\ F64IsNan(res[1])

\* The sign the formatter owes a value under a format: '-' when the sign bit
\* of the leading component is set, else '+' when sign-plus was requested,
\* else none.
SignPrefix(value, f) ==
    IF SignBit(value.c[1]) THEN <<"-">>
    ELSE IF f.sign_plus THEN <<"+">>
    ELSE <<>>

\* The call has returned and the format had no width, so that the output is
\* not padded.
FmtPlain == fdone /\ fflags.width = None

HasExponent(out) == \E i \in 1..Len(out) : out[i] \in {"e", "E"}

FmtExpDone == fdone /\ ftrait \in {"LowerExp", "UpperExp"}

\* C16: in LowerExp and UpperExp output an exponent suffix is appended if and
\* only if the value is neither NaN nor infinite: every value for which
\* is_nan holds and every infinity is rendered without an exponent, and a
\* zero is rendered with the exponent 0.
C16_ExponentIffFinite ==
    FmtExpDone =>
        /\ HasExponent(fout)
               <=> ~(quad_is_nan(fval.c) \/ quad_is_infinite(fval.c))
        /\ (quad_is_zero(fval.c) /\ ~quad_is_nan(fval.c) /\ fflags.width = None)
               => SubSeq(fout, Len(fout) - 1, Len(fout))
                      \in {<<"e", "0">>, <<"E", "0">>}

\* extract_digits has been called: the value is finite, non-zero and not NaN.
Extracted == fdone /\ fext # NoExt

\* C17: every element of the digit sequence that extract_digits returns for
\* a positive finite value and exp = floor(log10(value.0)) is a decimal
\* digit, an integer between 0 and 9.
C17_DigitsInRange ==
    Extracted => \A i \in 1..Len(fext.digits) : fext.digits[i] \in 0..9

\* C18: the extraction loop runs exactly MAX_ACCURACY + 1 = 63 times, one
\* digit per iteration; the sequence is then rounded and truncated at
\* position min(MAX_ACCURACY, 324 + exp), and the result never has more than
\* 62 digits.
C18_LoopAndTruncation ==
    Extracted =>
        /\ fext.iters = MAX_ACCURACY + 1
        /\ Len(fext.raw) = MAX_ACCURACY + 1
        /\ fext.pos = IF 324 + fval.lg < MAX_ACCURACY
                      THEN 324 + fval.lg ELSE MAX_ACCURACY
        /\ fext.digits = round_and_trunc(fext.raw, fext.pos)
        /\ Len(fext.digits) <= 62

\* A value near the bottom of the binary64 range, where 324 + exp is the
\* smaller bound, has been formatted.
C18_Witness ==
    /\ Extracted
    /\ fext.iters = 63
    /\ fext.pos = 324 + fval.lg
    /\ fext.pos < MAX_ACCURACY
    /\ Len(fext.digits) = fext.pos

\* The number of decimal points in the output, and the number of characters
\* behind the first one (0 without a point).
Points(out) == Cardinality({i \in 1..Len(out) : out[i] = "."})

FracLen(out) ==
    IF Points(out) = 0 THEN 0
    ELSE Len(out) - CHOOSE i \in 1..Len(out) :
                        /\ out[i] = "."
                        /\ \A j \in 1..(i - 1) : out[j] # "."

\* A finite value has been formatted in fixed form with a precision and
\* without padding.
FixedPrecDone ==
    /\ fdone
    /\ ftrait = "Display"
    /\ fflags.width = None
    /\ fflags.precision # None
    /\ quad_is_finite(fval.c)
    /\ ~quad_is_nan(fval.c)

NonOverlap(a, b) ==
    \/ F64IsZero(b)
    \/ /\ ExpField(b) # 2047
       /\ ExpField(a) \notin {0, 2047}
       /\ \/ ExpField(b) + 53 < ExpField(a)
          \/ ExpField(b) + 53 = ExpField(a) /\ FracZero(b)
          \/ ExpField(b) = 0 /\ ExpField(a) >= 54

\* |a| >= |b|
MagGeq(a, b) == ~MagLess(F64Abs(a), F64Abs(b))

\* The invariants of a wide value: non-overlap and magnitude ordering of
\* neighbouring components.  They are relaxed for a NaN (any component NaN)
\* and for an infinite leading component.
Normalized(w) ==
    \/ \E i \in 1..Len(w) : F64IsNan(w[i])
    \/ F64IsInfinite(w[1])
    \/ \A i \in 1..(Len(w) - 1) :
           NonOverlap(w[i], w[i + 1]) /\ MagGeq(w[i], w[i + 1])

\* atan2 has returned a Double from one of its special-case arms.
Atan2Special == bytes = <<>> /\ op = <<"atan2">> /\ branch # "general"

MinMaxDone == bytes = <<>> /\ (op = <<"min">> \/ op = <<"max">>)

\* A Double has been built from a byte array.
FromBytesDone == bytes # <<>> /\ Len(op) = 2

\* The byte array was written from y in the byte order it was read in.
SameOrder == FromBytesDone /\ op[2][2] = op[1][2]

\* The results that are computed from operands: the special-case results of
\* atan2, min and max of normalized operands, and the sum and the product of
\* normalized items with every partial result.
ComputedNormalized ==
    /\ Atan2Special => Normalized(res)
    /\ (MinMaxDone /\ Normalized(y) /\ Normalized(x)) => Normalized(res)
    /\ (pc \in {"fold", "done"}
           /\ \A i \in 1..Len(seq) : Normalized(seq[i])) => Normalized(acc)
    /\ (FoldDone /\ \A i \in 1..Len(seq) : Normalized(seq[i]))
           => Normalized(res)

GeneralArm == CalledAtan2 /\ branch = "general"

\* |a.0| < |b.0|
LeadLess(a, b) == MagLess(F64Abs(a[1]), F64Abs(b[1]))

\* C21: in the general case atan2 seeds z with the hardware atan2 of the
\* leading components of y and x and performs exactly one Newton update: the
\* sine form when |x| > |y| and the cosine form when |y| >= |x|, one of the
\* two for every pair of arguments.  The magnitudes are read on the leading
\* components.
C21_NewtonForm ==
    GeneralArm =>
        /\ res.seed = <<y[1], x[1]>>
        /\ steps = 1
        /\ res.form \in {"sin", "cos"}
        /\ res.form = "sin" <=> LeadLess(y, x)
        /\ res.form = "cos" <=> ~LeadLess(y, x)

\* The left fold of + (for a sum) or * (for a product) over s in iteration
\* order, from z.
RECURSIVE LeftFold(_, _, _)
LeftFold(kind, z, s) ==
    IF s = <<>> THEN z
    ELSE LET before == LeftFold(kind, z, SubSeq(s, 1, Len(s) - 1))
         IN IF kind \in Sums THEN add(before, s[Len(s)])
            ELSE mul(before, s[Len(s)])

\* The by-value fold of the same kind.
ByValue(kind) == IF kind \in Sums THEN "sum" ELSE "product"

\* C22: sum is the left fold of + over the sequence in iteration order from
\* ZERO and product the left fold of * from ONE, and for the same sequence
\* the by-reference fold returns what the by-value fold returns, for Double
\* and for Quad.
C22_LeftFold ==
    FoldDone =>
        /\ res = LeftFold(fkind,
                          Wide(Width(fty),
                               IF fkind \in Sums THEN PosZero ELSE Pow2(0),
                               PosZero),
                          seq)
        /\ res = FoldOf(fty, ByValue(fkind), seq, Len(seq))

\* A by-reference fold over three items whose result depends on the order:
\* folded from the right the items would give another value.
C22_Witness ==
    /\ FoldDone
    /\ fkind \in {"sum_ref", "product_ref"}
    /\ Len(seq) = 3
    /\ res # LeftFold(fkind, fold_init(fty, fkind), Reverse(seq))

\* The output with the exponent marker e written as E.  The fill characters
\* of Formats are not letters, so an e in the output is the marker.
UpperMarker(out) == [i \in 1..Len(out) |-> IF out[i] = "e" THEN "E" ELSE out[i]]

\* C23: for every Quad and every combination of format flags the UpperExp
\* output is the LowerExp output with the exponent marker e replaced by E:
\* sign, special-value strings, digits, exponent value and padding are the
\* same.
C23_UpperIsLower ==
    /\ (fdone /\ ftrait = "UpperExp")
           => fout = UpperMarker(LowerExp_fmt(fval, fflags).out)
    /\ (fdone /\ ftrait = "LowerExp")
           => UpperMarker(fout) = UpperExp_fmt(fval, fflags).out

\* A padded, signed UpperExp output of a value with digits and a fraction.
C23_Witness ==
    /\ fdone
    /\ ftrait = "UpperExp"
    /\ needs_digits(fval)
    /\ fflags.width # None
    /\ Len(fout) = fflags.width[1]
    /\ fout[1] \in {"+", "-"}
    /\ Points(fout) = 1
    /\ \E i \in 1..Len(fout) : fout[i] = "E"

\* The exact-case checks in the order the claim gives them.
CheckOrder ==
    <<"x_zero", "y_zero", "y_inf", "x_inf", "nan", "y_eq_x", "y_eq_neg_x">>

\* The check of that name matches the arguments.
CheckMatches(name, yy, xx) ==
    CASE name = "x_zero" -> is_zero(xx)
      [] name = "y_zero" -> is_zero(yy)
      [] name = "y_inf" -> is_infinite(yy)
      [] name = "x_inf" -> is_infinite(xx)
      [] name = "nan" -> is_nan(yy) \/ is_nan(xx)
      [] name = "y_eq_x" -> eq(yy, xx)
      [] name = "y_eq_neg_x" -> eq(yy, neg(xx))

Matching(yy, xx) == {i \in 1..Len(CheckOrder) : CheckMatches(CheckOrder[i], yy, xx)}

\* C24: the exact-case checks are applied in the order x zero, y zero,
\* y infinite, x infinite, either NaN, y == x, y == -x, and the earliest
\* check that matches decides the result: y = 0 with x = -infinity returns
\* pi, and a NaN paired with a zero or an infinity is decided by the zero or
\* infinity check.
C24_CheckOrder ==
    CalledAtan2 =>
        /\ Matching(y, x) = {} <=> branch = "general"
        /\ Matching(y, x) # {} =>
              \E i \in Matching(y, x) :
                  /\ \A j \in Matching(y, x) : i <= j
                  /\ branch = CheckOrder[i]
        /\ (is_zero(y) /\ ~is_zero(x) /\ is_infinite(x) /\ Negative(x))
              => res = PI
        /\ ((is_nan(y) \/ is_nan(x)) /\ (is_zero(y) \/ is_zero(x)))
              => branch \in {"x_zero", "y_zero"}
        /\ ((is_nan(y) \/ is_nan(x)) /\ ~is_zero(y) /\ ~is_zero(x)
                /\ (is_infinite(y) \/ is_infinite(x)))
              => branch \in {"y_inf", "x_inf"}

\* y = 0 with x = -infinity: the y-zero and the x-infinite check both match,
\* and the earlier one returns pi.
C24_Witness ==
    /\ CalledAtan2
    /\ is_zero(y)
    /\ is_infinite(x)
    /\ Negative(x)
    /\ Cardinality(Matching(y, x)) = 2
    /\ branch = "y_zero"
    /\ res = PI

\* Equal by value, a NaN being taken as equal to a NaN.
SameValue(a, b) == (is_nan(a) /\ is_nan(b)) \/ eq(a, b)

\* The call is one the symmetry is claimed for: an exact arm handled it, y is
\* neither zero nor NaN and x is not NaN.
OddCase ==
    /\ CalledAtan2
    /\ branch # "general"
    /\ ~is_zero(y) /\ ~is_nan(y) /\ ~is_nan(x)

\* C25: for every non-zero, non-NaN y and non-NaN x that an exact-case arm
\* handles, atan2(-y, x) = -atan2(y, x) by value (a NaN stays a NaN); the
\* symmetry does not extend to y = +-0, where a negative x gives pi for both
\* signs of y.
C25_OddInY ==
    /\ OddCase =>
          /\ atan2(neg(y), x).branch # "general"
          /\ SameValue(atan2(neg(y), x).value, neg(res))
    /\ (CalledAtan2 /\ is_zero(y) /\ ~is_nan(x) /\ Negative(x)) =>
          /\ atan2(neg(y), x).value = res
          /\ ~SameValue(atan2(neg(y), x).value, neg(res))

\* y == x in the third quadrant: -3pi/4, and the mirrored call leaves through
\* the other diagonal with 3pi/4.
C25_Witness ==
    /\ OddCase
    /\ branch = "y_eq_x"
    /\ res = neg(FRAC_3_PI_4)
    /\ atan2(neg(y), x).branch = "y_eq_neg_x"
    /\ atan2(neg(y), x).value = FRAC_3_PI_4

\* min or max was called on (y, x).
CalledMinMax == op = <<"min">> \/ op = <<"max">>

\* C26: for ordered Doubles a and b the pair (min(a, b), max(a, b)) is a
\* permutation of (a, b) bit for bit, min returning a and max returning b
\* when they compare equal; when they are unordered both return b and a is
\* dropped.
C26_MinMaxPair ==
    CalledMinMax =>
        /\ res = IF op = <<"min">> THEN min(y, x) ELSE max(y, x)
        /\ partial_cmp(y, x) # "None" =>
              /\ <<min(y, x), max(y, x)>> \in {<<y, x>>, <<x, y>>}
              /\ partial_cmp(y, x) = "Equal" =>
                    min(y, x) = y /\ max(y, x) = x
        /\ partial_cmp(y, x) = "None" =>
              min(y, x) = x /\ max(y, x) = x

\* Two operands that compare equal and differ in their bits (zeros of
\* opposite sign): max returns the second, min the first.
C26_Witness ==
    /\ op = <<"max">>
    /\ partial_cmp(y, x) = "Equal"
    /\ y # x
    /\ res = x
    /\ min(y, x) = y

\* An array of bytes was read by from_X_bytes.
ReadBytes == bytes # <<>> /\ Len(op) = 2 /\ op[2][1] = "from"

\* C27: for every array b of 16 bytes to_X_bytes(from_X_bytes(b)) = b, for
\* X = be, le and ne: reading applies no canonicalization, also when the
\* bytes hold a NaN or a pair that is not normalized.
C27_BytesRoundTrip ==
    ReadBytes =>
        /\ Len(bytes) = 16
        /\ res = from_bytes(op[2][2], endian, bytes)
        /\ to_bytes(op[2][2], endian, res) = bytes

\* Bytes written in one order and read in another: the value read is not the
\* value written, it holds a NaN with a payload above a component that is
\* not zero, and the bytes come back.
C27_Witness ==
    /\ ReadBytes
    /\ op[1][2] # op[2][2]
    /\ res # y
    /\ F64IsNan(y[1])
    /\ y[1] \notin {QNaN(0), F64Neg(QNaN(0))}
    /\ ~F64IsZero(y[2])
    /\ to_bytes(op[2][2], endian, res) = bytes

\* C28: for every finite non-zero binary64 c0, normal or subnormal, the
\* truncation position (324 + exp).min(MAX_ACCURACY) with
\* exp = floor(log10(|c0|)) lies in [0, 62]: it is never negative when it is
\* cast to usize.
C28_TruncPosRange ==
    tpc = "ret" =>
        /\ texp \in (0 - 324)..308
        /\ tpos = (IF 324 + texp < 62 THEN 324 + texp ELSE 62)
        /\ tpos \in 0..62

\* The smallest subnormal: exp = -324 and the position is 0.
C28_Witness ==
    /\ tpc = "ret"
    /\ F64Abs(tval) = <<0, 0, 0, 0, 0, 0, 0, 1>>
    /\ texp = 0 - 324
    /\ tpos = 0

\* The position of the exponent marker in an output that has one.
MarkerAt(out) == CHOOSE i \in 1..Len(out) : out[i] \in {"e", "E"}

\* The characters of the mantissa in front of the decimal point: what stands
\* between the sign and the point, or the marker when there is no point.
IntChars(out) ==
    LET first == IF out[1] \in {"+", "-"} THEN 2 ELSE 1
        stops == {i \in 1..Len(out) : out[i] \in {".", "e", "E"}}
        stop == CHOOSE i \in stops : \A j \in stops : i <= j
    IN SubSeq(out, first, stop - 1)

\* The characters behind the marker: the exponent as it is printed.
ExpChars(out) == SubSeq(out, MarkerAt(out) + 1, Len(out))

\* The exponent n as push_exp writes it.
ExpText(n) == Tail(push_exp(<<>>, "e", n))

\* The mantissa is 1 followed by zeros only: what a carry out of a leading
\* nine leaves.
CarriedMantissa(out) ==
    /\ IntChars(out) = <<"1">>
    /\ \A i \in 1..(MarkerAt(out) - 1) : out[i] \in {"+", "-", "1", ".", "0"}
    /\ Cardinality({i \in 1..(MarkerAt(out) - 1) : out[i] = "1"}) = 1

\* The exponent printed is the decimal exponent of the number the mantissa
\* stands for: that of the value with the value's leading digit (or the next
\* one, by rounding) in front, or one more behind a carry.
ExponentOf(out, value) ==
    \/ /\ ExpChars(out) = ExpText(value.e10)
       /\ IntChars(out)[1] \in {DigitChar(value.mant[1]),
                                 DigitChar(value.mant[1] + 1)}
    \/ /\ ExpChars(out) = ExpText(value.e10 + 1)
       /\ CarriedMantissa(out)

\* An exponential form of a finite non-zero value, without padding.
ExpFormDone ==
    /\ FmtExpDone
    /\ needs_digits(fval)
    /\ fflags.width = None

\* C29: for every finite non-zero Quad and every precision the exponent of
\* the LowerExp and UpperExp output is consistent with the printed mantissa:
\* the mantissa has exactly one digit before the decimal point, that digit is
\* not zero, and the exponent is the decimal exponent of the number printed,
\* also when rounding carries into a new leading digit.
C29_ExponentConsistent ==
    ExpFormDone =>
        /\ Len(IntChars(fout)) = 1
        /\ IntChars(fout)[1] \in {"1", "2", "3", "4", "5", "6", "7", "8", "9"}
        /\ ExponentOf(fout, fval)

\* Equal by value, component by component (+0 and -0 are equal, a NaN is
\* equal to nothing).
WideEq(a, b) == Len(a) = Len(b) /\ \A i \in 1..Len(a) : F64Eq(a[i], b[i])

\* A fold over a single item has returned.
SingleDone == FoldDone /\ Len(seq) = 1

\* C30: the seeds of the folds are identities on sequences of one element:
\* for every a that is not NaN sum([a]) == a and product([a]) == a by value,
\* and for a finite and not zero the result is a component for component.
C30_SeedIdentity ==
    (SingleDone /\ ~F64IsNan(seq[1][1])) =>
        /\ WideEq(res, seq[1])
        /\ (~F64IsInfinite(seq[1][1]) /\ ~F64IsZero(seq[1][1]))
              => res = seq[1]

\* The sum of the single item -0: +0, equal to the item by value and not in
\* its sign bit.
C30_Witness ==
    /\ SingleDone
    /\ fkind \in Sums
    /\ seq[1] = WideZero(Width(fty), TRUE)
    /\ res = WideZero(Width(fty), FALSE)
    /\ WideEq(res, seq[1])

====
